---- MODULE Spec2Model ----
(***************************************************************************)
(* lagunacam/main.py: a camera recorder.  The script parses its command    *)
(* line, runs a one-shot camera setup phase, then registers one recurring  *)
(* task with a Rocketry scheduler (task_execution = "main").  Each run of  *)
(* the task records a raw video, encodes it and uploads it, running one    *)
(* external tool per stage and handing a temporary file from stage to      *)
(* stage.                                                                  *)
(*                                                                         *)
(* Strings that the program parses are sequences of one-character strings. *)
(* Bytes are numbers 0..255.                                               *)
(***************************************************************************)
EXTENDS Integers, Sequences, FiniteSets, TLC

(***************************************************************************)
(* Bounds of the model.                                                    *)
(***************************************************************************)
\* longest --size argument drawn in ParseSpec
MaxLen == 4
\* number of distinct temporary file names the temp area can hand out
MaxNames == 2
\* the clock stops ticking at this reading
MaxClock == 2
\* the external tools exit with a status in 0..MaxExitCode
MaxExitCode == 1

(***************************************************************************)
(* Program constants.                                                      *)
(***************************************************************************)
Fps == 25
Bitrate == 15000000
DefaultDuration == 30000
DefaultWidth == 1920
DefaultHeight == 1080
DefaultSetupTime == 120
\* sys.exit status of argparse's parser.error()
ArgparseExit == 2
\* exit status of the interpreter on an uncaught exception
UncaughtExit == 1

\* Python's None; a value that is set is never the empty tuple
None == <<>>

(***************************************************************************)
(* Python strings, int() and str.split as far as the parser uses them.     *)
(***************************************************************************)
Digits == <<"0", "1", "2", "3", "4", "5", "6", "7", "8", "9">>

IsDigit(c) == \E i \in 1..10 : Digits[i] = c

DigitValue(c) == (CHOOSE i \in 1..10 : Digits[i] = c) - 1

RECURSIVE DigitsValue(_)
DigitsValue(s) ==
    IF s = <<>> THEN 0
    ELSE DigitsValue(SubSeq(s, 1, Len(s) - 1)) * 10 + DigitValue(s[Len(s)])

AllDigits(s) == Len(s) > 0 /\ \A i \in 1..Len(s) : IsDigit(s[i])

IsSpace(c) == c = " "

RECURSIVE Strip(_)
Strip(s) ==
    IF s = <<>> THEN s
    ELSE IF IsSpace(s[1]) THEN Strip(Tail(s))
    ELSE IF IsSpace(s[Len(s)]) THEN Strip(SubSeq(s, 1, Len(s) - 1))
    ELSE s

Err == [ok |-> FALSE]
Ok(v) == [ok |-> TRUE, value |-> v]

\* int(s) for a str s: surrounding whitespace, one optional sign, decimal
\* digits; anything else raises ValueError.
PyInt(s) ==
    LET t == Strip(s) IN
    IF t = <<>> THEN Err
    ELSE IF t[1] = "-" THEN
        (IF AllDigits(Tail(t)) THEN Ok(0 - DigitsValue(Tail(t))) ELSE Err)
    ELSE IF t[1] = "+" THEN
        (IF AllDigits(Tail(t)) THEN Ok(DigitsValue(Tail(t))) ELSE Err)
    ELSE IF AllDigits(t) THEN Ok(DigitsValue(t))
    ELSE Err

\* s.split(sep): the pieces of s between the occurrences of sep
RECURSIVE Split(_, _)
Split(s, sep) ==
    IF \E i \in 1..Len(s) : s[i] = sep
    THEN LET i == CHOOSE k \in 1..Len(s) :
                    s[k] = sep /\ \A j \in 1..(k - 1) : s[j] # sep
         IN <<SubSeq(s, 1, i - 1)>> \o Split(SubSeq(s, i + 1, Len(s)), sep)
    ELSE <<s>>

\* a size parser that falls back to the default on a bad argument
sizeFallback(s) ==
    LET parts == Split(s, ",") IN
    IF Len(parts) = 2 /\ PyInt(parts[1]).ok /\ PyInt(parts[2]).ok
    THEN Ok(<<PyInt(parts[1]).value, PyInt(parts[2]).value>>)
    ELSE Ok(<<DefaultWidth, DefaultHeight>>)

\* parse_args.size: "w, h = map(int, size.split(','))"; any exception is
\* turned into an ArgumentTypeError
size(s) ==
    LET parts == Split(s, ",") IN
    IF Len(parts) = 2 /\ PyInt(parts[1]).ok /\ PyInt(parts[2]).ok
    THEN Ok(<<PyInt(parts[1]).value, PyInt(parts[2]).value>>)
    ELSE Err

\* str.lower() on the letters the drawn --log arguments use
LowerChar(c) ==
    CASE c = "D" -> "d" [] c = "E" -> "e" [] c = "B" -> "b"
      [] c = "U" -> "u" [] c = "G" -> "g" [] OTHER -> c

Lower(s) == [i \in 1..Len(s) |-> LowerChar(s[i])]

\* the keys of parse_args' levels dict
levels ==
    { <<"c", "r", "i", "t", "i", "c", "a", "l">>,
      <<"e", "r", "r", "o", "r">>,
      <<"w", "a", "r", "n", "i", "n", "g">>,
      <<"i", "n", "f", "o">>,
      <<"d", "e", "b", "u", "g">> }

(***************************************************************************)
(* bytes.decode(): UTF-8 for the one- and two-byte forms.  The stderr      *)
(* outputs drawn below use no longer form.                                 *)
(***************************************************************************)
IsContinuation(b) == b >= 128 /\ b <= 191

RECURSIVE decode(_)
decode(bs) ==
    IF bs = <<>> THEN Ok(<<>>)
    ELSE IF bs[1] < 128 THEN
        LET r == decode(Tail(bs)) IN
        IF r.ok THEN Ok(<<bs[1]>> \o r.value) ELSE Err
    ELSE IF bs[1] >= 194 /\ bs[1] <= 223 /\ Len(bs) >= 2
            /\ IsContinuation(bs[2]) THEN
        LET r == decode(SubSeq(bs, 3, Len(bs))) IN
        IF r.ok THEN Ok(<<(bs[1] - 192) * 64 + (bs[2] - 128)>> \o r.value)
        ELSE Err
    ELSE Err

(***************************************************************************)
(* datetime.now().strftime("%Y-%m-%d-%H_%M_%S") of clock reading t, t      *)
(* counted in seconds from midnight of the day the process starts.         *)
(***************************************************************************)
StartDate == <<2022, 11, 5>>

strftime(t) ==
    << StartDate[1], "-", StartDate[2], "-", StartDate[3], "-",
       (t \div 3600) % 24, "_", (t \div 60) % 60, "_", t % 60 >>

(***************************************************************************)
(* Inputs.                                                                 *)
(***************************************************************************)
Names == 1..MaxNames
ExitCodes == 0..MaxExitCode

\* what a tool may have written to its stderr: "d", "e-acute", and a lone
\* lead byte, which is not UTF-8
Stderrs == { <<100>>, <<195, 169>>, <<195>> }

Opts == {"size", "log", "duration", "setup_time"}

ArgChoices ==
    [ size       |-> { <<"1", ",", "2">>, <<"1", ",", "-", "2">>,
                      <<"a", "b", "c">>, <<"1", "2">> },
      log        |-> { <<"D", "E", "B", "U", "G">>, <<"l", "o", "u", "d">> },
      duration   |-> { <<"x">> },
      setup_time |-> { <<"x">> } ]

\* a command line: the options given, each with its argument
Argvs ==
    UNION { { f \in [D -> UNION { ArgChoices[o] : o \in Opts }] :
                \A o \in D : f[o] \in ArgChoices[o] } : D \in SUBSET Opts }

Alphabet == {"1", "2", "-", ",", "a"}

Strings(n) == UNION { [1..k -> Alphabet] : k \in 0..n }

(***************************************************************************)
(* State.                                                                  *)
(***************************************************************************)
VARIABLES
    unlink_may_fail, \* the temp area may refuse an unlink
    argv,        \* the command line
    main,        \* position of the script's top level (lines 267-303)
    args,        \* what parse_args returned, None before
    exitcode,    \* <<exit status>> of the process, None while it lives
    logdir,      \* ./logs exists
    setup_calls, \* commands the setup phase has run
    setup_returns, \* what each of them exited with
    registered,  \* the recurring task is created in the session
    sched,       \* the scheduler loop: "Idle" or "Running" a task
    inflight,    \* create_video_task invocations that have not ended
    due,         \* the task's start condition holds
    now,         \* the clock
    disk,        \* temporary files that exist
    pc,          \* position inside create_video_task
    input_path,  \* the stage's input file
    output_path, \* the stage's output file
    filename,    \* upload's filename
    created,     \* temporary files allocated by the current cycle
    calls,       \* commands the current cycle has run, in order
    returns,     \* what each of them exited with
    log,         \* calls made on the logger since the last dispatch
    outcome      \* how the last cycle ended

vars == << unlink_may_fail, argv, main, args, exitcode, logdir, setup_calls, setup_returns,
           registered, sched,
           inflight, due, now, disk, pc, input_path, output_path, filename,
           created, calls, returns, log, outcome >>

mainVars == << unlink_may_fail, argv, main, args, exitcode, logdir, setup_calls, setup_returns,
              registered >>
taskVars == << pc, input_path, output_path, filename, created, calls, returns,
              outcome >>

NoOutcome == [kind |-> "none"]

InitRest ==
    /\ main = "parse_args"
    /\ args = None
    /\ exitcode = None
    /\ logdir = FALSE
    /\ setup_calls = <<>>
    /\ setup_returns = <<>>
    /\ registered = FALSE
    /\ sched = "Idle"
    /\ inflight = 0
    /\ due = FALSE
    /\ now = 0
    /\ disk = {}
    /\ pc = "idle"
    /\ input_path = None
    /\ output_path = None
    /\ filename = None
    /\ created = {}
    /\ calls = <<>>
    /\ returns = <<>>
    /\ log = <<>>
    /\ outcome = NoOutcome

\* a temp area in which every unlink succeeds
Init == argv \in Argvs /\ unlink_may_fail = FALSE /\ InitRest

\* a temp area in which an unlink may fail
FaultInit == argv \in Argvs /\ unlink_may_fail = TRUE /\ InitRest

\* the command lines of ParseSpec: every --size argument up to MaxLen
ParseInit ==
    /\ argv \in { [o \in {"size"} |-> s] : s \in Strings(MaxLen) }
               \cup { [o \in {"size", "log"} |->
                         IF o = "size" THEN s ELSE <<"l", "o", "u", "d">>] :
                      s \in Strings(MaxLen) }
    /\ unlink_may_fail = FALSE
    /\ InitRest

(***************************************************************************)
(* The script's top level.                                                 *)
(***************************************************************************)
Given(o) == o \in DOMAIN argv

\* argparse: each given option is converted by its type; a failed
\* conversion ends in parser.error()
ArgsConvert ==
    /\ Given("duration") => PyInt(argv["duration"]).ok
    /\ Given("size") => size(argv["size"]).ok
    /\ Given("setup_time") => PyInt(argv["setup_time"]).ok

LogArg == IF Given("log") THEN argv["log"] ELSE <<"i", "n", "f", "o">>

ParsedArgs ==
    [ level      |-> Lower(LogArg),
      interval   |-> "every 10 minutes",
      duration   |-> IF Given("duration") THEN PyInt(argv["duration"]).value
                     ELSE DefaultDuration,
      size       |-> IF Given("size") THEN size(argv["size"]).value
                     ELSE <<DefaultWidth, DefaultHeight>>,
      setup_time |-> IF Given("setup_time")
                     THEN PyInt(argv["setup_time"]).value
                     ELSE DefaultSetupTime ]

\* a level lookup that falls back to a default level
LevelFoundOrDefault == TRUE

\* lines 89-90: levels.get(args.log.lower()) is not None
LevelFound == Lower(LogArg) \in levels

Exit(code) ==
    /\ main' = "exit"
    /\ exitcode' = <<code>>

\* parse_args(), lines 34-102 and 268-274
ParseArgs ==
    /\ main = "parse_args"
    /\ \/ /\ ~ArgsConvert
          /\ Exit(ArgparseExit)
          /\ args' = args
       \/ /\ ArgsConvert
          /\ ~LevelFound
          \* line 91 names sys, which the module never imports: NameError
          /\ Exit(UncaughtExit)
          /\ args' = args
       \/ /\ ArgsConvert
          /\ LevelFound
          /\ args' = ParsedArgs
          /\ main' = "setup_log"
          /\ exitcode' = exitcode
    /\ UNCHANGED << unlink_may_fail, argv, logdir, setup_calls, setup_returns, registered,
                    sched, inflight, due, now, disk, log >>
    /\ UNCHANGED taskVars

\* lines 276-287: logging.basicConfig, ./logs, the rotating handler
SetupLog ==
    /\ main = "setup_log"
    /\ logdir' = TRUE
    /\ main' = "startup"
    /\ UNCHANGED << unlink_may_fail, argv, args, exitcode, setup_calls, setup_returns,
                    registered, sched, inflight, due, now, disk, log >>
    /\ UNCHANGED taskVars

Info(m) == [level |-> "info", msg |-> m]
Error(m) == [level |-> "error", msg |-> m]

\* the message of the LagunaCamException a stage raises from a
\* CalledProcessError e: e.cmd, e.returncode, e.stderr.decode()
StageError(what, cmd, returncode, text) ==
    [what |-> what, cmd |-> cmd, code |-> returncode, output |-> text]

\* the setup command given a file to write
StartupCommandWithOutput ==
    [ tool |-> "/opt/vc/bin/raspivid",
      t    |-> args.setup_time * 1000,
      w    |-> args.size[1],
      h    |-> args.size[2],
      fps  |-> Fps,
      b    |-> Bitrate,
      o    |-> <<"setup", ".h264">> ]

\* startup's command, lines 235-250
StartupCommand ==
    [ tool |-> "/opt/vc/bin/raspivid",
      t    |-> args.setup_time * 1000,
      w    |-> args.size[1],
      h    |-> args.size[2],
      fps  |-> Fps,
      b    |-> Bitrate ]

\* startup() up to the moment the tool runs, lines 289-293 and 234-259
StartupStart ==
    /\ main = "startup"
    /\ log' = Append(log, Info(<<"Start camera output for manual focus setup",
                                 (args.setup_time * 1000) \div 1000>>))
    /\ \/ \* the tool cannot be started: OSError leaves the script
          /\ Exit(UncaughtExit)
          /\ setup_calls' = setup_calls
       \/ /\ main' = "startup_wait"
          /\ setup_calls' = Append(setup_calls, StartupCommand)
          /\ exitcode' = exitcode
    /\ UNCHANGED << unlink_may_fail, argv, args, logdir, setup_returns, registered, sched,
                    inflight, due, now, disk >>
    /\ UNCHANGED taskVars

\* a setup failure that is logged like a cycle's, the script going on
StartupFailureLogged(returncode, stderr) ==
    /\ log' = Append(log, Error(<<"Unable to complete setup phase">>))
    /\ registered' = TRUE
    /\ main' = "run"
    /\ exitcode' = exitcode

\* lines 261-264: the LagunaCamException (or the decode error of its
\* message) is raised into the script's top level, which catches nothing
StartupFailure(returncode, stderr) ==
    /\ Exit(UncaughtExit)
    /\ UNCHANGED << log, registered >>

\* the setup tool returns: the rest of startup() and lines 296-303
StartupReturn ==
    /\ main = "startup_wait"
    /\ \/ /\ log' = Append(log, Info(<<"Manual setup phase done.">>))
          \* app.params, app.session.create_task, app.run
          /\ registered' = TRUE
          /\ main' = "run"
          /\ exitcode' = exitcode
          /\ setup_returns' = Append(setup_returns,
                                     [returncode |-> 0, stderr |-> <<>>])
       \/ \E returncode \in ExitCodes \ {0}, stderr \in Stderrs :
            /\ setup_returns' = Append(setup_returns,
                    [returncode |-> returncode, stderr |-> stderr])
            /\ StartupFailure(returncode, stderr)
    /\ UNCHANGED << unlink_may_fail, argv, args, logdir, setup_calls, sched, inflight, due,
                    now, disk >>
    /\ UNCHANGED taskVars

(***************************************************************************)
(* The scheduler, app.run() with task_execution = "main": the loop checks  *)
(* the task's start condition and runs the task in its own thread, so the  *)
(* loop is inside the task until the task ends.  An exception that leaves  *)
(* the task is caught by the task runner and recorded as a failed run.     *)
(***************************************************************************)
\* time passes, and a tool that is still running is given up: what
\* subprocess.run(timeout=...) would do, TimeoutExpired leaving the task
TickWithTimeout ==
    /\ main # "exit"
    /\ now < MaxClock
    /\ now' = now + 1
    /\ IF pc \in {"record_wait", "encode_wait", "upload_wait"}
       THEN /\ sched' = "Idle"
            /\ inflight' = inflight - 1
            /\ pc' = "idle"
            /\ input_path' = None
            /\ output_path' = None
            /\ filename' = None
            /\ outcome' = [kind |-> "raised", stage |-> "record",
                           exc |-> "TimeoutExpired"]
            /\ UNCHANGED << due, disk, log, created, calls, returns >>
       ELSE /\ UNCHANGED << sched, inflight, due, disk, log >>
            /\ UNCHANGED taskVars
    /\ UNCHANGED mainVars

\* time passes
Tick ==
    /\ main # "exit"
    /\ now < MaxClock
    /\ now' = now + 1
    /\ UNCHANGED << sched, inflight, due, disk, log >>
    /\ UNCHANGED mainVars
    /\ UNCHANGED taskVars

\* the interval of the start condition has passed since the last run
Trigger ==
    /\ main = "run"
    /\ ~due
    /\ due' = TRUE
    /\ UNCHANGED << sched, inflight, now, disk, log >>
    /\ UNCHANGED mainVars
    /\ UNCHANGED taskVars

\* a task execution that does not block the loop, as "thread" would
DispatchConcurrent ==
    /\ main = "run"
    /\ registered
    /\ due
    /\ sched' = "Running"
    /\ inflight' = inflight + 1
    /\ due' = FALSE
    /\ pc' = "record"
    /\ input_path' = None
    /\ output_path' = None
    /\ filename' = None
    /\ created' = {}
    /\ calls' = <<>>
    /\ returns' = <<>>
    /\ log' = <<>>
    /\ outcome' = [kind |-> "running"]
    /\ UNCHANGED << now, disk >>
    /\ UNCHANGED mainVars

\* the loop finds the task due and calls create_video_task
Dispatch ==
    /\ main = "run"
    /\ registered
    /\ sched = "Idle"
    /\ due
    /\ sched' = "Running"
    /\ inflight' = inflight + 1
    /\ due' = FALSE
    /\ pc' = "record"
    /\ input_path' = None
    /\ output_path' = None
    /\ filename' = None
    /\ created' = {}
    /\ calls' = <<>>
    /\ returns' = <<>>
    /\ log' = <<>>
    /\ outcome' = [kind |-> "running"]
    /\ UNCHANGED << now, disk >>
    /\ UNCHANGED mainVars

\* create_video_task ends, by return or by exception, and the loop goes on
EndCycle(o) ==
    /\ sched' = "Idle"
    /\ inflight' = inflight - 1
    /\ pc' = "idle"
    /\ input_path' = None
    /\ output_path' = None
    /\ filename' = None
    /\ outcome' = o

\* a LagunaCamException that nothing catches and that ends the loop
FailedStopsLoop(stage, e, lg) ==
    /\ log' = lg
    /\ inflight' = inflight - 1
    /\ pc' = "idle"
    /\ input_path' = None
    /\ output_path' = None
    /\ filename' = None
    /\ outcome' = [kind |-> "failed", stage |-> stage, error |-> e]
    /\ sched' = "Stopped"

\* lines 228-229: the LagunaCamException is caught and logged
Failed(stage, e, lg) ==
    /\ log' = Append(lg, Error(e))
    /\ EndCycle([kind |-> "failed", stage |-> stage, error |-> e])

\* any other exception leaves create_video_task
Raised(stage, exc, lg) ==
    /\ log' = lg
    /\ EndCycle([kind |-> "raised", stage |-> stage, exc |-> exc])

\* "except CalledProcessError as e: raise LagunaCamException(...)"
\* as seen by create_video_task
CalledProcessError(stage, what, cmd, returncode, stderr, lg) ==
    IF decode(stderr).ok
    THEN Failed(stage, StageError(what, cmd, returncode,
                                  decode(stderr).value), lg)
    ELSE Raised(stage, "UnicodeDecodeError", lg)

\* an unlink that is left out
UnlinkOutputSkipped(d) == d

\* Path(output_path.name).unlink(missing_ok=True), lines 138 and 172
UnlinkOutput(d) == d \ {output_path}

\* a finally clause that is left out
UnlinkInputSkipped(d) == d

\* Path(input_path.name).unlink(missing_ok=True), lines 177 and 218
UnlinkInput(d) == d \ {input_path}

\* an unlink raises (PermissionError, an OSError): the exception leaves
\* the except or finally clause it is in, in place of the one in flight;
\* d is the disk the failed unlink leaves
UnlinkFails(stage, d, lg) ==
    /\ unlink_may_fail
    /\ disk' = d
    /\ Raised(stage, "PermissionError", lg)

\* subprocess.run returned or raised CalledProcessError
Returned(returncode, stderr) ==
    returns' = Append(returns, [returncode |-> returncode, stderr |-> stderr])

\* tempfile.NamedTemporaryFile(delete=False, suffix=...): a path no file has
FreePaths(suffix) == { <<n, suffix>> : n \in Names } \ disk

(***************************************************************************)
(* record, lines 105-143.                                                  *)
(***************************************************************************)
RecordCommand(path) ==
    [ tool |-> "/opt/vc/bin/raspivid",
      t    |-> args.duration,
      w    |-> args.size[1],
      h    |-> args.size[2],
      fps  |-> Fps,
      b    |-> Bitrate,
      o    |-> path ]

\* record() up to the moment raspivid runs
RecordStart ==
    /\ pc = "record"
    /\ \/ \* no temporary file can be made: OSError
          /\ Raised("record", "OSError", log)
          /\ UNCHANGED << disk, created, calls >>
       \/ \E path \in FreePaths(".h264") :
            LET lg == Append(log, Info(<<"Start recording", path, "at",
                                         strftime(now)>>)) IN
            /\ disk' = disk \cup {path}
            /\ created' = created \cup {path}
            /\ \/ \* raspivid cannot be started: OSError, which no
                  \* except clause of record names
                  /\ Raised("record", "FileNotFoundError", lg)
                  /\ calls' = calls
               \/ /\ calls' = Append(calls, RecordCommand(path))
                  /\ output_path' = path
                  /\ pc' = "record_wait"
                  /\ log' = lg
                  /\ UNCHANGED << sched, inflight, input_path, filename,
                                  outcome >>
    /\ UNCHANGED << due, now, returns >>
    /\ UNCHANGED mainVars

\* raspivid returns
RecordReturn ==
    /\ pc = "record_wait"
    /\ \/ \* exit status 0: record returns output_path, encode is called
          /\ log' = Append(log, Info(<<"Successfully recorded", output_path>>))
          /\ input_path' = output_path
          /\ output_path' = None
          /\ pc' = "encode"
          /\ Returned(0, <<>>)
          /\ UNCHANGED << sched, inflight, disk, filename, outcome >>
       \/ \E returncode \in ExitCodes \ {0}, stderr \in Stderrs :
            /\ Returned(returncode, stderr)
            /\ \/ /\ disk' = UnlinkOutput(disk)
                  /\ CalledProcessError("record", "Unable to record video",
                                        calls[Len(calls)], returncode, stderr,
                                        log)
               \/ \* the unlink of line 138 fails
                  UnlinkFails("record", disk, log)
    /\ UNCHANGED << due, now, created, calls >>
    /\ UNCHANGED mainVars

(***************************************************************************)
(* encode, lines 146-179.                                                  *)
(***************************************************************************)
\* ffmpeg given its paths the other way round
EncodeCommandSwapped(in, out) ==
    [ tool |-> "ffmpeg", y |-> TRUE, i |-> out, o |-> in ]

EncodeCommand(in, out) ==
    [ tool |-> "ffmpeg", y |-> TRUE, i |-> in, o |-> out ]

\* encode() up to the moment ffmpeg runs
EncodeStart ==
    /\ pc = "encode"
    /\ \/ \* no temporary file can be made: OSError, raised before the
          \* try statement is entered
          /\ Raised("encode", "OSError", log)
          /\ UNCHANGED << disk, created, calls >>
       \/ \E path \in FreePaths(".mp4") :
            LET lg == Append(log, Info(<<"Start encoding", path>>)) IN
            /\ created' = created \cup {path}
            /\ \/ \* ffmpeg cannot be started: OSError; the finally
                  \* clause deletes the input
                  /\ \/ /\ disk' = UnlinkInput(disk \cup {path})
                        /\ Raised("encode", "FileNotFoundError", lg)
                     \/ \* the unlink of line 177 fails
                        UnlinkFails("encode", disk \cup {path}, lg)
                  /\ calls' = calls
               \/ /\ disk' = disk \cup {path}
                  /\ calls' = Append(calls, EncodeCommand(input_path, path))
                  /\ output_path' = path
                  /\ pc' = "encode_wait"
                  /\ log' = lg
                  /\ UNCHANGED << sched, inflight, input_path, filename,
                                  outcome >>
    /\ UNCHANGED << due, now, returns >>
    /\ UNCHANGED mainVars

\* ffmpeg returns
EncodeReturn ==
    /\ pc = "encode_wait"
    /\ \/ \* exit status 0, and the unlink of line 177 fails
          /\ Returned(0, <<>>)
          /\ UnlinkFails("encode", disk,
                Append(log, Info(<<"Successfully encoded", output_path>>)))
       \/ \* exit status 0: the finally clause deletes the input, encode
          \* returns output_path, upload is called
          /\ log' = Append(log, Info(<<"Successfully encoded", output_path>>))
          /\ disk' = UnlinkInput(disk)
          /\ input_path' = output_path
          /\ output_path' = None
          /\ pc' = "upload"
          /\ Returned(0, <<>>)
          /\ UNCHANGED << sched, inflight, filename, outcome >>
       \/ \E returncode \in ExitCodes \ {0}, stderr \in Stderrs :
            /\ Returned(returncode, stderr)
            /\ \/ /\ disk' = UnlinkInput(UnlinkOutput(disk))
                  /\ CalledProcessError("encode", "Unable to encode video",
                                        calls[Len(calls)], returncode, stderr,
                                        log)
               \/ \* the unlink of line 172 fails, that of line 177 works
                  UnlinkFails("encode", UnlinkInput(disk), log)
               \/ \* the unlink of line 172 works, that of line 177 fails
                  UnlinkFails("encode", UnlinkOutput(disk), log)
               \/ \* both fail
                  UnlinkFails("encode", disk, log)
    /\ UNCHANGED << due, now, created, calls >>
    /\ UNCHANGED mainVars

(***************************************************************************)
(* upload, lines 182-220.                                                  *)
(***************************************************************************)
\* lines 183-184
UploadFilename(t) == <<"laboratorio_laguna_cam", "_", strftime(t), ".mp4">>

\* lines 189-193
Destination(name) ==
    [ user |-> "stahl", server |-> "10.35.0.182",
      path |-> <<"temp/venedig/", name>> ]

UploadCommand(in, name) ==
    [ tool |-> "scp",
      options |-> <<"StrictHostKeyChecking=no",
                    "UserKnownHostsFile=/dev/null">>,
      source |-> in,
      destination |-> Destination(name) ]

\* upload() up to the moment scp runs
UploadStart ==
    /\ pc = "upload"
    /\ LET name == UploadFilename(now)
           lg == Append(log, Info(<<"Uploading", input_path,
                                    Destination(name)>>))
       IN \/ \* scp cannot be started: OSError; the finally clause
             \* deletes the input
             /\ \/ /\ disk' = UnlinkInput(disk)
                   /\ Raised("upload", "FileNotFoundError", lg)
                \/ \* the unlink of line 218 fails
                   UnlinkFails("upload", disk, lg)
             /\ calls' = calls
          \/ /\ calls' = Append(calls, UploadCommand(input_path, name))
             /\ filename' = name
             /\ pc' = "upload_wait"
             /\ log' = lg
             /\ UNCHANGED << sched, inflight, disk, input_path, output_path,
                             outcome >>
    /\ UNCHANGED << due, now, created, returns >>
    /\ UNCHANGED mainVars

\* the name create_video_task reports, had upload formatted the clock
\* again on return
UploadedNameAtReturn == UploadFilename(now)

\* the name upload returns, line 220
UploadedName == filename

\* scp returns
UploadReturn ==
    /\ pc = "upload_wait"
    /\ \/ \* exit status 0, and the unlink of line 218 fails
          /\ Returned(0, <<>>)
          /\ UnlinkFails("upload", disk,
                Append(log, Info(<<"Successfully uploaded", filename>>)))
       \/ \* exit status 0: upload returns filename, lines 230-231
          /\ Returned(0, <<>>)
          /\ disk' = UnlinkInput(disk)
          /\ log' = log \o << Info(<<"Successfully uploaded", filename>>),
                            Info(<<"Successfully created", UploadedName>>) >>
          /\ EndCycle([kind |-> "completed", filename |-> UploadedName])
       \/ \E returncode \in ExitCodes \ {0}, stderr \in Stderrs :
            /\ Returned(returncode, stderr)
            /\ \/ /\ disk' = UnlinkInput(disk)
                  /\ CalledProcessError("upload", "Unable to upload video",
                                        calls[Len(calls)], returncode, stderr,
                                        log)
               \/ \* the unlink of line 218 fails
                  UnlinkFails("upload", disk, log)
    /\ UNCHANGED << due, now, created, calls >>
    /\ UNCHANGED mainVars

(***************************************************************************)
(* Specifications.                                                         *)
(***************************************************************************)
Next ==
    \/ ParseArgs
    \/ SetupLog
    \/ StartupStart
    \/ StartupReturn
    \/ Tick
    \/ Trigger
    \/ Dispatch
    \/ RecordStart
    \/ RecordReturn
    \/ EncodeStart
    \/ EncodeReturn
    \/ UploadStart
    \/ UploadReturn

Spec == Init /\ [][Next]_vars

\* the start condition comes true again, the loop keeps checking it, and
\* every external tool that was started returns
FairSpec ==
    /\ Spec
    /\ WF_vars(Trigger)
    /\ WF_vars(Dispatch)
    /\ WF_vars(RecordStart)
    /\ WF_vars(RecordReturn)
    /\ WF_vars(EncodeStart)
    /\ WF_vars(EncodeReturn)
    /\ WF_vars(UploadStart)
    /\ WF_vars(UploadReturn)

\* the program in a temp area where an unlink may fail
FaultSpec == FaultInit /\ [][Next]_vars

ParseNext == ParseArgs

\* parse_args on every --size argument up to MaxLen
ParseSpec == ParseInit /\ [][ParseNext]_vars

(***************************************************************************)
(* Properties.                                                             *)
(***************************************************************************)
\* a cycle has been dispatched and has ended
CycleEnded == pc = "idle" /\ outcome.kind \in {"completed", "failed", "raised"}

\* the last tool the ended cycle ran exited with a non-zero status
ToolExitedNonZero ==
    /\ CycleEnded
    /\ returns # <<>>
    /\ returns[Len(returns)].returncode # 0

\* all three tools of the ended cycle exited with status 0
AllToolsSucceeded ==
    /\ CycleEnded
    /\ Len(returns) = 3
    /\ \A i \in 1..3 : returns[i].returncode = 0

\* C1: once a cycle has ended in which a tool exited non-zero, or in which
\* all three tools succeeded, none of the temporary files the cycle
\* created exists.
C1_NoArtifactAfterCycle ==
    (ToolExitedNonZero \/ AllToolsSucceeded) => created \cap disk = {}

\* a cycle that made both files and then failed in ffmpeg
C1_Witness ==
    /\ ToolExitedNonZero
    /\ Len(calls) = 2
    /\ Cardinality(created) = 2

\* C2: once a cycle has ended, on whatever path, none of the temporary
\* files the cycle created exists; in particular when a tool could not be
\* started.
C2_NoArtifactOnAnyPath == CycleEnded => created \cap disk = {}

\* C3: at most one create_video_task invocation is in flight, the
\* scheduler is Running exactly while one is, and a trigger that comes due
\* meanwhile starts no second one.
C3_AtMostOneInvocation ==
    /\ inflight \in {0, 1}
    /\ sched \in {"Idle", "Running"}
    /\ (inflight = 1) <=> (sched = "Running")
    /\ (pc # "idle") <=> (sched = "Running")

\* the trigger is due again while ffmpeg is running
C3_Witness == sched = "Running" /\ due /\ pc = "encode_wait" /\ inflight = 1

\* the stage of the ended cycle's failure was entered and its tool failed:
\* it exited non-zero or could not be started
ToolFailed(stage) ==
    /\ CycleEnded
    /\ outcome.kind \in {"failed", "raised"}
    /\ outcome.stage = stage
    /\ outcome.kind = "raised" => outcome.exc # "OSError"

C5_FailureShortCircuits ==
    /\ ToolFailed("record") =>
          \A i \in 1..Len(calls) : calls[i].tool = "/opt/vc/bin/raspivid"
    /\ ToolFailed("encode") =>
          /\ \A i \in 1..Len(calls) : calls[i].tool # "scp"
          /\ calls[1].o \notin disk

\* ffmpeg ran and failed
C5_Witness == ToolFailed("encode") /\ Len(calls) = 2

\* the setup tool exited non-zero, or could not be started
SetupFailed ==
    \/ setup_returns # <<>> /\ setup_returns[1].returncode # 0
    \/ main = "exit" /\ logdir /\ setup_calls = <<>>

IsIntegerText(t) ==
    LET u == Strip(t) IN
    /\ u # <<>>
    /\ \/ AllDigits(u)
       \/ u[1] \in {"-", "+"} /\ AllDigits(Tail(u))

\* text of the form <integer>,<integer>
TwoIntegers(s) ==
    \E i \in 1..Len(s) :
        /\ s[i] = ","
        /\ IsIntegerText(SubSeq(s, 1, i - 1))
        /\ IsIntegerText(SubSeq(s, i + 1, Len(s)))

\* C7: with a --size argument that is not two integers, the process exits
\* in parse_args: the setup tool is never run, ./logs is never made, the
\* task is never registered and no cycle is dispatched.
C7_MalformedSizeExitsFirst ==
    (Given("size") /\ ~TwoIntegers(argv["size"])) =>
        /\ main \in {"parse_args", "exit"}
        /\ main = "exit" => exitcode = <<ArgparseExit>>
        /\ setup_calls = <<>>
        /\ ~logdir
        /\ ~registered
        /\ outcome.kind = "none"

C7_Witness ==
    /\ Given("size")
    /\ argv["size"] = <<"a", "b", "c">>
    /\ main = "exit"

\* text of the form W,H with W and H positive decimal numbers
WellFormedSize(s) ==
    \E i \in 1..Len(s) :
        /\ s[i] = ","
        /\ AllDigits(SubSeq(s, 1, i - 1))
        /\ DigitsValue(SubSeq(s, 1, i - 1)) > 0
        /\ AllDigits(SubSeq(s, i + 1, Len(s)))
        /\ DigitsValue(SubSeq(s, i + 1, Len(s))) > 0

ExpectedSize(s) ==
    LET i == CHOOSE k \in 1..Len(s) : s[k] = "," IN
    << DigitsValue(SubSeq(s, 1, i - 1)), DigitsValue(SubSeq(s, i + 1, Len(s))) >>

\* C8: the --size argument passes argparse exactly when it is W,H with W
\* and H positive integers, and then the size parsed is (W, H).
C8_SizeAcceptsExactlyPositivePairs ==
    (main # "parse_args" /\ Given("size")) =>
        LET accepted == ~(main = "exit" /\ exitcode = <<ArgparseExit>>) IN
        /\ accepted <=> WellFormedSize(argv["size"])
        /\ main = "setup_log" => args.size = ExpectedSize(argv["size"])

IsTimestamp(ts) ==
    /\ Len(ts) = 11
    /\ ts[2] = "-" /\ ts[4] = "-" /\ ts[6] = "-" /\ ts[8] = "_" /\ ts[10] = "_"
    /\ ts[1] \in 1..9999
    /\ ts[3] \in 1..12
    /\ ts[5] \in 1..31
    /\ ts[7] \in 0..23
    /\ ts[9] \in 0..59
    /\ ts[11] \in 0..59

\* <prefix>_<YYYY-MM-DD-HH_MM_SS>.mp4
MatchesPattern(f) ==
    /\ Len(f) = 4
    /\ f[1] = "laboratorio_laguna_cam"
    /\ f[2] = "_"
    /\ IsTimestamp(f[3])
    /\ f[4] = ".mp4"

\* C9: a cycle whose three tools succeeded reports a filename of the form
\* <prefix>_<YYYY-MM-DD-HH_MM_SS>.mp4, the name scp was given in its
\* destination, and when it reports, neither the file raspivid wrote nor
\* the file ffmpeg wrote exists.
C9_CompletedCycle ==
    outcome.kind = "completed" =>
        /\ Len(calls) = 3
        /\ MatchesPattern(outcome.filename)
        /\ outcome.filename = calls[3].destination.path[2]
        /\ log[Len(log)] = Info(<<"Successfully created", outcome.filename>>)
        /\ calls[2].i = calls[1].o
        /\ calls[3].source = calls[2].o
        /\ calls[1].o \notin disk
        /\ calls[2].o \notin disk

\* the clock moved while scp ran
C9_Witness ==
    /\ outcome.kind = "completed"
    /\ outcome.filename # UploadFilename(now)

StageOf(n) == <<"record", "encode", "upload">>[n]

\* C10: when a tool exits non-zero, the cycle reports one failure naming
\* the stage, the command, the exit status and the tool's stderr text, and
\* the scheduler is Idle afterwards.
C10_FailureReport ==
    ToolExitedNonZero =>
        LET n == Len(calls) IN
        /\ outcome.kind = "failed"
        /\ outcome.stage = StageOf(n)
        /\ outcome.error.cmd = calls[n]
        /\ outcome.error.code = returns[n].returncode
        /\ decode(returns[n].stderr).ok =>
              outcome.error.output = decode(returns[n].stderr).value
        /\ log[Len(log)] = Error(outcome.error)
        /\ sched = "Idle"
        /\ main = "run"

\* the names of the five log levels
LevelNames ==
    { <<"c", "r", "i", "t", "i", "c", "a", "l">>, <<"e", "r", "r", "o", "r">>,
      <<"w", "a", "r", "n", "i", "n", "g">>, <<"i", "n", "f", "o">>,
      <<"d", "e", "b", "u", "g">> }

\* the --log argument names none of the five levels, in whatever case
BadLogLevel == Given("log") /\ Lower(argv["log"]) \notin LevelNames

\* C11: with a --log argument that names no level the process exits
\* non-zero in parse_args: ./logs is never made, the setup tool is never
\* run, the task is never registered and no cycle is dispatched.
C11_BadLogLevelIsFatal ==
    BadLogLevel =>
        /\ main \in {"parse_args", "exit"}
        /\ main = "exit" => exitcode # <<0>>
        /\ args = None
        /\ ~logdir
        /\ setup_calls = <<>>
        /\ ~registered
        /\ outcome.kind = "none"

\* the arguments convert, the level is unknown, the process has ended
C11_Witness ==
    /\ BadLogLevel
    /\ Given("size") /\ argv["size"] = <<"1", ",", "2">>
    /\ main = "exit"
    /\ exitcode = <<UncaughtExit>>

\* C12: a failed unlink does not compound the error: no cycle ends with
\* the unlink's exception, a cycle whose tool exited non-zero still reports
\* that stage's failure, and a cycle whose three tools succeeded still
\* completes.
C12_UnlinkFailureTolerated ==
    CycleEnded =>
        /\ ~(outcome.kind = "raised" /\ outcome.exc = "PermissionError")
        /\ (ToolExitedNonZero /\ decode(returns[Len(returns)].stderr).ok) =>
              outcome.kind = "failed"
        /\ AllToolsSucceeded => outcome.kind = "completed"

\* encode() has been called and has returned or raised
EncodeOver ==
    \/ pc \in {"upload", "upload_wait"}
    \/ /\ CycleEnded
       /\ \/ outcome.kind = "completed"
          \/ outcome.kind \in {"failed", "raised"}
             /\ outcome.stage \in {"encode", "upload"}

\* upload() has been called and has returned or raised
UploadOver ==
    /\ CycleEnded
    /\ \/ outcome.kind = "completed"
       \/ outcome.kind \in {"failed", "raised"} /\ outcome.stage = "upload"

\* the file raspivid was told to write, the input of encode()
RawFile == calls[1].o

\* the file ffmpeg was told to write, the input of upload()
EncodedFile == calls[2].o

\* C13: a consuming stage deletes its input on every way out: once encode
\* has returned or raised the raw file is gone, once upload has returned or
\* raised the encoded file is gone, and the raw file is gone while scp runs.
C13_InputDeletedOnEveryPath ==
    /\ EncodeOver => RawFile \notin disk
    /\ UploadOver => EncodedFile \notin disk
    /\ pc = "upload_wait" => RawFile \notin disk

\* the tools of a cycle, in the order of create_video_task
ToolOrder == << "/opt/vc/bin/raspivid", "ffmpeg", "scp" >>

\* C14: within a cycle the tools run in the order raspivid, ffmpeg, scp,
\* each at most once and each only after the one before it exited with
\* status 0; ffmpeg reads the file raspivid was told to write and scp sends
\* the file ffmpeg was told to write.
C14_ToolsInOrderOnce ==
    /\ Len(calls) <= Len(ToolOrder)
    /\ \A n \in 1..Len(calls) : calls[n].tool = ToolOrder[n]
    /\ Len(returns) <= Len(calls)
    /\ Len(calls) <= Len(returns) + 1
    /\ \A n \in 1..Len(calls) - 1 : returns[n].returncode = 0
    /\ Len(calls) >= 2 => calls[2].i = calls[1].o
    /\ Len(calls) >= 3 => calls[3].source = calls[2].o

C14_Witness ==
    /\ Len(calls) = 3
    /\ Len(returns) = 2
    /\ calls[3].source # calls[1].o

\* C15: the setup tool is run at most once, and exactly once with exit
\* status 0 before the task is registered and any cycle dispatched; it is
\* the capture tool, run without an output path, and nothing is on disk or
\* created before the first cycle.
C15_SetupOnceBeforePipeline ==
    /\ Len(setup_calls) <= 1
    /\ Len(setup_returns) <= Len(setup_calls)
    /\ \A n \in 1..Len(setup_calls) :
          /\ setup_calls[n].tool = ToolOrder[1]
          /\ "o" \notin DOMAIN setup_calls[n]
    /\ (registered \/ outcome.kind # "none") =>
          /\ Len(setup_calls) = 1
          /\ Len(setup_returns) = 1
          /\ setup_returns[1].returncode = 0
    /\ outcome.kind = "none" => disk = {} /\ created = {} /\ calls = <<>>

C15_Witness ==
    /\ registered
    /\ pc = "record_wait"
    /\ Len(setup_calls) = 1
    /\ "o" \in DOMAIN calls[1]

\* the log calls of create_video_task itself: line 231 and line 229
IsCompletionMessage(r) == r.level = "info" /\ r.msg[1] = "Successfully created"
IsErrorMessage(r) == r.level = "error"

CompletionMessages == { n \in 1..Len(log) : IsCompletionMessage(log[n]) }
ErrorMessages == { n \in 1..Len(log) : IsErrorMessage(log[n]) }

\* C16: a cycle that has ended has logged exactly one outcome: the
\* completion message and no error when the three tools succeeded, one
\* error message and no completion message otherwise.
C16_ExactlyOneOutcomeLogged ==
    CycleEnded =>
        /\ Cardinality(CompletionMessages) + Cardinality(ErrorMessages) = 1
        /\ AllToolsSucceeded <=> Cardinality(CompletionMessages) = 1

\* a cycle is between its dispatch and its end
InCycle == pc # "idle"

\* the files of the running cycle that exist
Artifacts == created \cap disk

\* the stage whose code is running
RunningStage ==
    CASE pc \in {"record", "record_wait"} -> "record"
      [] pc \in {"encode", "encode_wait"} -> "encode"
      [] pc \in {"upload", "upload_wait"} -> "upload"
      [] OTHER -> "none"

\* C17: during a cycle every existing temporary file is held by the
\* running stage under exactly one of its two names, input or output; a
\* stage holds an input only if the tool that produced it exited with
\* status 0; and when a cycle ends in failure the files it created have
\* been deleted.
C17_SingleOwner ==
    /\ InCycle =>
          /\ Artifacts \subseteq {input_path, output_path}
          /\ input_path # None => input_path # output_path
          /\ RunningStage = "record" => input_path = None
          /\ RunningStage = "encode" =>
                input_path = calls[1].o /\ returns[1].returncode = 0
          /\ RunningStage = "upload" =>
                input_path = calls[2].o /\ returns[2].returncode = 0
    /\ (CycleEnded /\ outcome.kind \in {"failed", "raised"}) =>
          Artifacts = {}

\* a tool is running: subprocess.run has been called and has not returned
ToolRunning == pc \in {"record_wait", "encode_wait", "upload_wait"}

\* the running tool returns
ToolReturns == Len(returns') = Len(returns) + 1

\* C18: nothing but the tool's own return ends the wait for it: while a
\* tool is running the scheduler is Running with one invocation in flight,
\* and every step that is not the tool returning leaves the invocation
\* where it is, the scheduler Running, and starts no other tool or cycle.
C18_NoSupervisoryTimeout ==
    /\ [](ToolRunning => sched = "Running" /\ inflight = 1)
    /\ [][ToolRunning =>
            \/ ToolReturns
            \/ /\ pc' = pc
               /\ sched' = "Running"
               /\ inflight' = 1
               /\ calls' = calls
               /\ returns' = returns
               /\ outcome' = outcome]_vars

C18_Witness ==
    /\ pc = "upload_wait"
    /\ sched = "Running"
    /\ due
    /\ now = MaxClock

====
